---------------------------- MODULE Spec2Model ----------------------------
(***************************************************************************)
(* The frequency scheduler of aduana (lib/src/freq_scheduler.c): an        *)
(* ordered LMDB table "schedule" mapping ScheduleKey (score, hash) to a    *)
(* frequency, the loaders that fill it and the request engine that pops    *)
(* the head, consults the page DB and reinserts the entry one period       *)
(* later.                                                                  *)
(*                                                                         *)
(* Numbers.  ScheduleKey.score is a double and freq a float; the model     *)
(* uses the frequencies -1, 0, 1 and 2, whose periods 1/freq are -1, +inf, *)
(* 1 and 1/2, so every score is an exact multiple of 1/2 (or +inf) and is  *)
(* kept as an integer count of halves.  Wall-clock time is kept in ticks   *)
(* of half a second.                                                       *)
(***************************************************************************)
EXTENDS Integers, Sequences, FiniteSets

\* ------------------------------------------------------------------ bounds
MaxHash == 2        \* page hashes are 1..MaxHash
MaxCrawls == 2      \* add() is modelled until a page has this many crawls
MaxTime == 2        \* the clock is modelled for this many ticks
MaxScore == 4       \* finite scores are kept within -MaxScore..MaxScore halves
MaxEntries == 2     \* loaders are modelled while the table holds at most this many entries
MaxArrayLen == 2    \* length of the array given to load_mmap
MaxFaultIter == 2   \* a store failure is injected in one of the first MaxFaultIter loop rounds

\* --------------------------------------------------------------- constants
ScoreUnit == 2      \* score 1.0 is ScoreUnit halves
TimeUnit == 2       \* one second is TimeUnit ticks
PosInf == 1000      \* 1.0/0.0f: +infinity, above every finite score
freq_scheduler_error_internal == 3

Hashes == 1..MaxHash
ArrayFreqs == {-1, 0, 1, 2}     \* PageFreq.freq values handed to load_mmap
FreqDefaults == {0, 1}          \* freq_default values handed to load_simple
FreqScales == {0, 1}            \* freq_scale values handed to load_simple
RequestSizes == {0, 1, 2, 6}    \* max_requests values handed to request
FaultRequestSizes == {0, 1, 2}  \* max_requests values where the store may fail
ThrottleMargins == {0}          \* sch->margin values that enable the throttle
CrawlCaps == {0, 2}             \* sch->max_n_crawls: 0 unlimited (the default)

VARIABLES
    schedule,       \* the committed "schedule" table: a set of [score, hash, freq]
    page_db,        \* the page DB: hash -> [present, n_crawls, last_crawl]
    margin,         \* sch->margin
    max_n_crawls,   \* sch->max_n_crawls
    persist,        \* sch->persist
    error,          \* sch->error->code
    now,            \* time(0), in ticks
    txn_open,       \* a write transaction was begun and never finished
    op,             \* the operation that returned last
    rc,             \* its return code
    max_requests,   \* request's argument
    fault,          \* the store failure the environment injected into it
    request_set,    \* request assigned *request (line 314)
    request,        \* the URLs (page hashes) in *request
    txn_events,     \* what the operation did to its transaction, in order
    dump_rows       \* the rows dump printed

vars == <<schedule, page_db, margin, max_n_crawls, persist, error, now, txn_open, op, rc,
          max_requests, fault, request_set, request, txn_events, dump_rows>>

\* ------------------------------------------------------- ScheduleKey, store
Entry(score, hash, freq) == [score |-> score, hash |-> hash, freq |-> freq]

\* schedule_entry_mdb_cmp_asc: score ascending, then hash ascending
KeyLess(a, b) ==
    \/ a.score < b.score
    \/ a.score = b.score /\ a.hash < b.hash

SameKey(a, b) == a.score = b.score /\ a.hash = b.hash

\* (mutant: the cursor is positioned on the largest key)
CursorLast(S) == CHOOSE e \in S : \A x \in S : x = e \/ ~KeyLess(e, x)
\* mdb_cursor_get(MDB_FIRST): the entry with the smallest key
CursorFirst(S) == CHOOSE e \in S : \A x \in S : x = e \/ KeyLess(e, x)

\* mdb_cursor_put(cursor, key, val, 0): a key that is present gets the new value
CursorPut(S, e) == {x \in S : ~SameKey(x, e)} \cup {e}

\* mdb_cursor_del(cursor, 0) on the entry just read
CursorDel(S, e) == S \ {e}

\* (mutant: the period does not follow the frequency)
PeriodNoScale(freq) == IF freq = 0 THEN PosInf ELSE 1
\* 1.0/freq in halves; 1.0/0 is +infinity
Period(freq) ==
    IF freq = 0 THEN PosInf
    ELSE IF freq > 0 THEN ScoreUnit \div freq
    ELSE -(ScoreUnit \div (-freq))

\* IEEE addition on the values the model holds: +inf absorbs
ScoreAdd(s, d) == IF s = PosInf \/ d = PosInf THEN PosInf ELSE s + d

\* ----------------------------------------------------------------- page DB
NoPage == [present |-> FALSE, n_crawls |-> 0, last_crawl |-> 0, is_seed |-> FALSE]

\* a page the page DB knows from a link to it, not crawled so far
LinkedPage == [present |-> TRUE, n_crawls |-> 0, last_crawl |-> 0, is_seed |-> FALSE]

\* a page the crawl was started from
SeedPage == [present |-> TRUE, n_crawls |-> 0, last_crawl |-> 0, is_seed |-> TRUE]

\* page_info_rate(pi): the page's estimated change rate; none (0) past page 2
page_info_rate(h) == IF h = 1 THEN 2 ELSE IF h = 2 THEN 1 ELSE 0

\* page_info_is_seed(pi)
page_info_is_seed(h) == page_db[h].is_seed

\* page_db_add(db, page, 0): one more crawl of the page, at the current time
page_db_add(db, h) ==
    [db EXCEPT ![h] = [present |-> TRUE,
                       n_crawls |-> db[h].n_crawls + 1,
                       last_crawl |-> now,
                       is_seed |-> db[h].is_seed]]

\* ------------------------------------------------------------------ faults
NoFault == [at |-> "none", iter |-> 0]
Fault(at, iter) == [at |-> at, iter |-> iter]
FaultIters == 1..MaxFaultIter

\* ------------------------------------------------- cursor open/commit/abort
\* freq_scheduler_cursor_open: [rc, cursor (non-NULL), txn (begun and open), error]
freq_scheduler_cursor_open(f) ==
    IF f.at = "begin"
    THEN [rc |-> freq_scheduler_error_internal, cursor |-> FALSE, txn |-> FALSE,
          error |-> freq_scheduler_error_internal, events |-> <<>>]
    ELSE IF f.at = "open"
    THEN [rc |-> error, cursor |-> FALSE, txn |-> TRUE, error |-> error,
          events |-> <<"begin">>]
    ELSE [rc |-> error, cursor |-> TRUE, txn |-> TRUE, error |-> error,
          events |-> <<"begin">>]

\* freq_scheduler_cursor_abort: nothing when the cursor is NULL
freq_scheduler_cursor_abort(cursor) == IF cursor THEN <<"abort">> ELSE <<>>

\* freq_scheduler_cursor_commit: [ok, events]; mdb_cursor_txn(NULL) is NULL, which
\* txn_manager_commit refuses and the abort skips
freq_scheduler_cursor_commit(cursor, f) ==
    IF ~cursor THEN [ok |-> FALSE, events |-> <<>>]
    ELSE IF f.at = "commit" THEN [ok |-> FALSE, events |-> <<"commit_failed", "abort">>]
    ELSE [ok |-> TRUE, events |-> <<"commit">>]

\* the table a transaction leaves behind: its writes when it committed, the
\* table as it was when it was aborted
\* (mutant: an abort leaves the writes in the table)
AbortKeepsWrites(committed, before, after) == after
TxnResult(committed, before, after) == IF committed THEN after ELSE before

\* ---------------------------------------------------------- request engine
\* (mutant: the throttle never holds a page back)
NeverThrottled(elapsed, freq, m) == FALSE
\* line 346: elapsed < 1.0/(freq*(1.0 + margin)), elapsed in ticks
Throttled(elapsed, freq, m) ==
    LET rate == freq * (1 + m)
    IN  IF rate = 0 THEN TRUE                       \* elapsed < +inf
        ELSE IF rate > 0 THEN elapsed * rate < TimeUnit
        ELSE elapsed * rate > TimeUnit              \* elapsed < a negative bound

\* lines 343-348: interrupt_requests
InterruptRequests(pi, freq) ==
    /\ pi.present
    /\ margin >= 0
    /\ Throttled(now - pi.last_crawl, freq, margin)

\* (mutant: the cap does not retire a page)
CrawlIgnoresCap(pi) == pi.present
\* line 349: crawl, 0 when the page DB has no PageInfo
Crawl(pi) == pi.present /\ (max_n_crawls = 0 \/ pi.n_crawls < max_n_crawls)

\* (mutant: the score moves two periods)
AdvanceTwice(e) == Entry(ScoreAdd(ScoreAdd(e.score, Period(e.freq)), Period(e.freq)), e.hash, e.freq)
\* lines 363-367: the key the head is reinserted under
Advance(e) == Entry(ScoreAdd(e.score, Period(e.freq)), e.hash, e.freq)

\* (mutant: one round too many)
LoopContinuesOneMore(n_urls, max) == n_urls <= max
\* (mutant: two rounds too many)
LoopContinuesTwoMore(n_urls, max) == n_urls <= max + 1
\* line 321: the loop goes on while the list is short of max_requests
LoopContinues(n_urls, max) == n_urls < max

\* lines 321-386: the loop, from the table S of the open transaction and the URLs
\* added so far; iter counts the rounds.  [sched, urls, ok, rounds]
RECURSIVE RequestLoop(_, _, _, _, _, _)
RequestLoop(S, urls, iter, max, cursor, f) ==
    LET fail == [sched |-> S, urls |-> urls, ok |-> FALSE, rounds |-> iter]
        done == [sched |-> S, urls |-> urls, ok |-> TRUE, rounds |-> iter]
    IN  IF ~LoopContinues(Len(urls), max) THEN [done EXCEPT !.rounds = iter - 1]
        ELSE IF ~cursor \/ f = Fault("get", iter) THEN fail
        ELSE IF S = {} THEN done
        ELSE LET e == CursorFirst(S)
                 pi == page_db[e.hash]
             IN  IF f = Fault("get_info", iter) THEN fail
                 ELSE IF InterruptRequests(pi, e.freq) THEN done
                 ELSE IF f = Fault("del", iter) THEN fail
                 ELSE IF ~Crawl(pi)
                      THEN RequestLoop(CursorDel(S, e), urls, iter + 1, max, cursor, f)
                 ELSE IF f = Fault("add_url", iter)
                      THEN [fail EXCEPT !.sched = CursorDel(S, e)]
                 ELSE IF f = Fault("put", iter)
                      THEN [fail EXCEPT !.sched = CursorDel(S, e),
                                        !.urls = Append(urls, e.hash)]
                 ELSE RequestLoop(CursorPut(CursorDel(S, e), Advance(e)),
                                  Append(urls, e.hash), iter + 1, max, cursor, f)

\* what on_error hands back in *request: the list as it stands
OnErrorRequest(urls) == urls

\* freq_scheduler_request: [rc, sched, set, urls, events, txn, error]
freq_scheduler_request(max, f) ==
    LET co == freq_scheduler_cursor_open(f)
        on_error(set, urls, cursor, events, txn) ==
            [rc |-> freq_scheduler_error_internal,
             sched |-> schedule,
             set |-> set,
             urls |-> urls,
             events |-> events \o freq_scheduler_cursor_abort(cursor),
             txn |-> txn /\ ~cursor,
             error |-> freq_scheduler_error_internal]
    IN  IF co.rc # 0 THEN on_error(FALSE, <<>>, co.cursor, co.events, co.txn)
        ELSE IF f.at = "alloc" THEN on_error(TRUE, <<>>, co.cursor, co.events, co.txn)
        ELSE LET r == RequestLoop(schedule, <<>>, 1, max, co.cursor, f)
                 cm == freq_scheduler_cursor_commit(co.cursor, f)
             IN  IF ~r.ok
                 THEN [on_error(TRUE, OnErrorRequest(r.urls), co.cursor, co.events, co.txn)
                          EXCEPT !.sched = TxnResult(FALSE, schedule, r.sched)]
                 ELSE IF ~cm.ok
                 THEN [on_error(TRUE, OnErrorRequest(r.urls), co.cursor,
                                co.events \o cm.events, co.txn)
                          EXCEPT !.sched = TxnResult(FALSE, schedule, r.sched)]
                 ELSE [rc |-> error,
                       sched |-> TxnResult(TRUE, schedule, r.sched),
                       set |-> TRUE,
                       urls |-> r.urls,
                       events |-> co.events \o cm.events,
                       txn |-> FALSE,
                       error |-> error]

RequestFaults ==
    {NoFault}
    \cup {Fault(at, 0) : at \in {"begin", "open", "alloc", "commit"}}
    \cup {Fault(at, i) : at \in {"get", "get_info", "del", "add_url", "put"},
                         i \in FaultIters}

InScoreRange(S) ==
    \A e \in S : e.score = PosInf \/ (e.score >= -MaxScore /\ e.score <= MaxScore)

\* ----------------------------------------------------------------- loaders
\* what an operation that failed before or after its loop returns
OnError(cursor, events, txn) ==
    [rc |-> freq_scheduler_error_internal,
     sched |-> schedule,
     events |-> events \o freq_scheduler_cursor_abort(cursor),
     txn |-> txn /\ ~cursor,
     error |-> freq_scheduler_error_internal]

OnSuccess(S, events) ==
    [rc |-> error, sched |-> S, events |-> events, txn |-> FALSE, error |-> error]

\* lines 214-220: the frequency load_simple gives a page
LoadFreq(h, freq_default, freq_scale) ==
    IF freq_scale > 0 /\ page_info_rate(h) > 0
    THEN freq_scale * page_info_rate(h)
    ELSE freq_default

\* (mutant: load_simple schedules every crawled page)
LoadSelectsCrawled(h) == page_db[h].present /\ page_db[h].n_crawls > 0
\* lines 210-212: the pages load_simple schedules
LoadSelected(h) ==
    /\ page_db[h].present
    /\ page_db[h].n_crawls > 0
    /\ (max_n_crawls = 0 \/ page_db[h].n_crawls < max_n_crawls)
    /\ ~page_info_is_seed(h)

\* freq_scheduler_cursor_write: [sched, ok, put]; put says mdb_cursor_put was called
freq_scheduler_cursor_write(S, cursor, hash, freq, failing) ==
    IF freq <= 0 THEN [sched |-> S, ok |-> TRUE, put |-> FALSE]
    ELSE IF ~cursor \/ failing THEN [sched |-> S, ok |-> FALSE, put |-> TRUE]
    ELSE [sched |-> CursorPut(S, Entry(0, hash, freq)), ok |-> TRUE, put |-> TRUE]

\* lines 209-225: the stream hands out the pages in hash order; nput counts the puts
RECURSIVE LoadSimpleLoop(_, _, _, _, _, _, _)
LoadSimpleLoop(S, h, nput, freq_default, freq_scale, cursor, f) ==
    IF h > MaxHash THEN [sched |-> S, ok |-> TRUE]
    ELSE IF ~LoadSelected(h)
    THEN LoadSimpleLoop(S, h + 1, nput, freq_default, freq_scale, cursor, f)
    ELSE LET w == freq_scheduler_cursor_write(S, cursor, h,
                      LoadFreq(h, freq_default, freq_scale), f = Fault("put", nput + 1))
         IN  IF ~w.ok THEN [sched |-> S, ok |-> FALSE]
             ELSE LoadSimpleLoop(w.sched, h + 1, IF w.put THEN nput + 1 ELSE nput,
                                 freq_default, freq_scale, cursor, f)

\* freq_scheduler_load_simple
freq_scheduler_load_simple(freq_default, freq_scale, f) ==
    IF f.at = "stream" THEN OnError(FALSE, <<>>, FALSE)
    ELSE LET co == freq_scheduler_cursor_open(f)
         IN  IF co.rc # 0 THEN OnError(co.cursor, co.events, co.txn)
             ELSE LET r == LoadSimpleLoop(schedule, 1, 0, freq_default, freq_scale,
                                          co.cursor, f)
                      cm == freq_scheduler_cursor_commit(co.cursor, f)
                  IN  IF ~r.ok \/ f.at = "stream_state"
                      THEN OnError(co.cursor, co.events, co.txn)
                      ELSE IF ~cm.ok
                      THEN OnError(co.cursor, co.events \o cm.events, co.txn)
                      ELSE OnSuccess(TxnResult(TRUE, schedule, r.sched),
                                     co.events \o cm.events)

LoadSimpleFaults ==
    {NoFault}
    \cup {Fault(at, 0) : at \in {"stream", "begin", "open", "stream_state", "commit"}}
    \cup {Fault("put", i) : i \in FaultIters}

\* lines 267-279: the entry load_mmap writes for one array element
MmapEntry(pf) == Entry(Period(pf.freq), pf.hash, pf.freq)

\* lines 266-286
RECURSIVE LoadMmapLoop(_, _, _, _, _)
LoadMmapLoop(S, freqs, i, cursor, f) ==
    IF i > Len(freqs) THEN [sched |-> S, ok |-> TRUE]
    ELSE IF ~cursor \/ f = Fault("put", i) THEN [sched |-> S, ok |-> FALSE]
    ELSE LoadMmapLoop(CursorPut(S, MmapEntry(freqs[i])), freqs, i + 1, cursor, f)

\* freq_scheduler_load_mmap
freq_scheduler_load_mmap(freqs, f) ==
    IF f.at = "expand" THEN OnError(FALSE, <<>>, FALSE)
    ELSE LET co == freq_scheduler_cursor_open(f)
         IN  IF co.rc # 0 THEN OnError(co.cursor, co.events, co.txn)
             ELSE LET r == LoadMmapLoop(schedule, freqs, 1, co.cursor, f)
                      cm == freq_scheduler_cursor_commit(co.cursor, f)
                  IN  IF ~r.ok THEN OnError(co.cursor, co.events, co.txn)
                      ELSE IF ~cm.ok
                      THEN OnError(co.cursor, co.events \o cm.events, co.txn)
                      ELSE OnSuccess(TxnResult(TRUE, schedule, r.sched),
                                     co.events \o cm.events)

LoadMmapFaults ==
    {NoFault}
    \cup {Fault(at, 0) : at \in {"expand", "begin", "open", "commit"}}
    \cup {Fault("put", i) : i \in FaultIters}

PageFreqs == [hash : Hashes, freq : ArrayFreqs]
RECURSIVE SeqsUpTo(_, _)
SeqsUpTo(S, n) ==
    IF n = 0 THEN {<<>>}
    ELSE LET shorter == SeqsUpTo(S, n - 1)
         IN  shorter \cup {Append(s, x) : s \in shorter, x \in S}
MMapArrays == SeqsUpTo(PageFreqs, MaxArrayLen)
ShortArrays == SeqsUpTo(PageFreqs, 1)

\* (mutant: the rows come in hash order)
RECURSIVE KeyOrderByHash(_)
KeyOrderByHash(S) ==
    IF S = {} THEN <<>>
    ELSE LET e == CHOOSE e \in S :
                      \A x \in S : \/ x.hash > e.hash
                                   \/ x.hash = e.hash /\ x.score >= e.score
         IN  <<e>> \o KeyOrderByHash(S \ {e})
\* lines 438-462 of dump: the rows in key order (MDB_FIRST, then MDB_NEXT)
RECURSIVE KeyOrder(_)
KeyOrder(S) ==
    IF S = {} THEN <<>>
    ELSE LET e == CursorFirst(S) IN <<e>> \o KeyOrder(CursorDel(S, e))

\* freq_scheduler_dump: [rc, sched, rows, events, txn, error]
freq_scheduler_dump(f) ==
    LET co == freq_scheduler_cursor_open(f)
        all == KeyOrder(schedule)
    IN  IF co.rc # 0
        THEN [rc |-> co.rc, sched |-> schedule, rows |-> <<>>, events |-> co.events,
              txn |-> co.txn, error |-> co.error]
        ELSE IF ~co.cursor \/ (f.at = "get" /\ f.iter <= Len(all) + 1)
        THEN [rc |-> freq_scheduler_error_internal,
              sched |-> schedule,
              rows |-> IF co.cursor THEN SubSeq(all, 1, f.iter - 1) ELSE <<>>,
              events |-> co.events \o freq_scheduler_cursor_abort(co.cursor),
              txn |-> ~co.cursor,
              error |-> freq_scheduler_error_internal]
        ELSE [rc |-> error, sched |-> schedule, rows |-> all,
              events |-> co.events \o freq_scheduler_cursor_abort(co.cursor),
              txn |-> FALSE, error |-> error]

DumpFaults ==
    {NoFault}
    \cup {Fault(at, 0) : at \in {"begin", "open"}}
    \cup {Fault("get", i) : i \in FaultIters}

\* ------------------------------------------------------------------ actions
\* the page DB before any crawl
EmptyPageDB == [h \in Hashes |-> NoPage]

\* page DBs in which page 2 is unknown, known from a link, or a seed
StartedPageDBs ==
    {[h \in Hashes |-> IF h = 2 THEN p ELSE NoPage] : p \in {NoPage, LinkedPage, SeedPage}}

\* the scheduler as freq_scheduler_new leaves it (margin -1, max_n_crawls 0), with
\* the options the caller then sets, on a page DB of dbs
Configured(margins, caps, dbs) ==
    /\ schedule = {}
    /\ page_db \in dbs
    /\ margin \in margins
    /\ max_n_crawls \in caps
    /\ persist = TRUE
    /\ error = 0
    /\ now = 0
    /\ txn_open = FALSE
    /\ op = "new"
    /\ rc = 0
    /\ max_requests = 0
    /\ fault = NoFault
    /\ request_set = FALSE
    /\ request = <<>>
    /\ txn_events = <<>>
    /\ dump_rows = <<>>

\* the environment injects a failure only where the operation gets to
Fires(f, with, without) == f = NoFault \/ with # without

\* an operation that begins a write transaction waits for the one left open
Returns(o, f, r) ==
    /\ ~txn_open
    /\ op' = o
    /\ fault' = f
    /\ rc' = r.rc
    /\ error' = r.error
    /\ schedule' = r.sched
    /\ txn_events' = r.events
    /\ txn_open' = r.txn
    /\ UNCHANGED <<page_db, margin, max_n_crawls, persist, now>>

RequestOp(sizes, faults) ==
    \E max \in sizes, f \in faults :
        \E r \in {freq_scheduler_request(max, f)} :
            /\ Fires(f, r, freq_scheduler_request(max, NoFault))
            /\ InScoreRange(r.sched)
            /\ Returns("request", f, r)
            /\ max_requests' = max
            /\ request_set' = r.set
            /\ request' = r.urls
            /\ dump_rows' = <<>>

LoadSimpleOp(faults) ==
    \E freq_default \in FreqDefaults, freq_scale \in FreqScales, f \in faults :
        \E r \in {freq_scheduler_load_simple(freq_default, freq_scale, f)} :
            /\ Fires(f, r, freq_scheduler_load_simple(freq_default, freq_scale, NoFault))
            /\ Cardinality(r.sched) <= MaxEntries
            /\ Returns("load_simple", f, r)
            /\ max_requests' = 0
            /\ request_set' = FALSE
            /\ request' = <<>>
            /\ dump_rows' = <<>>

LoadMmapOp(arrays, faults) ==
    \E freqs \in arrays, f \in faults :
        \E r \in {freq_scheduler_load_mmap(freqs, f)} :
            /\ Fires(f, r, freq_scheduler_load_mmap(freqs, NoFault))
            /\ Cardinality(r.sched) <= MaxEntries
            /\ Returns("load_mmap", f, r)
            /\ max_requests' = 0
            /\ request_set' = FALSE
            /\ request' = <<>>
            /\ dump_rows' = <<>>

DumpOp(faults) ==
    \E f \in faults :
        \E r \in {freq_scheduler_dump(f)} :
            /\ Fires(f, r, freq_scheduler_dump(NoFault))
            /\ Returns("dump", f, r)
            /\ max_requests' = 0
            /\ request_set' = FALSE
            /\ request' = <<>>
            /\ dump_rows' = r.rows

\* freq_scheduler_add
AddOp(failures) ==
    \E h \in Hashes, failing \in failures :
        /\ page_db[h].n_crawls < MaxCrawls
        /\ page_db' = IF failing THEN page_db ELSE page_db_add(page_db, h)
        /\ error' = IF failing THEN freq_scheduler_error_internal ELSE error
        /\ rc' = error'
        /\ op' = "add"
        /\ fault' = IF failing THEN Fault("page_db_add", 0) ELSE NoFault
        /\ max_requests' = 0
        /\ request_set' = FALSE
        /\ request' = <<>>
        /\ txn_events' = <<>>
        /\ dump_rows' = <<>>
        /\ UNCHANGED <<schedule, margin, max_n_crawls, persist, now, txn_open>>

\* the caller sets sch->persist
SetPersist ==
    \E p \in BOOLEAN :
        /\ p # persist
        /\ persist' = p
        /\ op' = "set_persist"
        /\ UNCHANGED <<schedule, page_db, margin, max_n_crawls, error, now, txn_open, rc,
                       max_requests, fault, request_set, request, txn_events, dump_rows>>

\* (mutant: delete always removes the files)
RemovedOnDelete(S, p) == {}
\* freq_scheduler_delete, lines 414-423: the table the directory holds afterwards
StoredAfterDelete(S, p) == IF p THEN S ELSE {}

\* freq_scheduler_delete followed by freq_scheduler_new on the same path, with
\* the caller setting margin and max_n_crawls as before; a transaction left
\* open ends with the environment
Reopen ==
    /\ schedule' = StoredAfterDelete(schedule, persist)
    /\ persist' = TRUE
    /\ error' = 0
    /\ rc' = 0
    /\ txn_open' = FALSE
    /\ op' = "reopen"
    /\ fault' = NoFault
    /\ max_requests' = 0
    /\ request_set' = FALSE
    /\ request' = <<>>
    /\ txn_events' = <<>>
    /\ dump_rows' = <<>>
    /\ UNCHANGED <<page_db, margin, max_n_crawls, now>>

\* ---------------------------------------------------------- specifications
\* Spec: the store and the page DB never fail, the throttle is off (the default)
Init == Configured({-1}, CrawlCaps, {EmptyPageDB})

Request == RequestOp(RequestSizes, {NoFault})
LoadSimple == LoadSimpleOp({NoFault})
LoadMmap == LoadMmapOp(MMapArrays, {NoFault})
Dump == DumpOp({NoFault})
Add == AddOp({FALSE})

Next ==
    \/ Request
    \/ LoadSimple
    \/ LoadMmap
    \/ Dump
    \/ Add

Spec == Init /\ [][Next]_vars

\* SpecThrottle: the throttle is on and the wall clock moves
InitThrottle == Configured(ThrottleMargins, {0}, {EmptyPageDB})

Tick ==
    /\ now < MaxTime
    /\ now' = now + 1
    /\ op' = "tick"
    /\ UNCHANGED <<schedule, page_db, margin, max_n_crawls, persist, error, txn_open, rc,
                   max_requests, fault, request_set, request, txn_events, dump_rows>>

LoadMmapShort == LoadMmapOp(ShortArrays, {NoFault})

NextThrottle ==
    \/ Request
    \/ LoadSimple
    \/ LoadMmapShort
    \/ Add
    \/ Tick

SpecThrottle == InitThrottle /\ [][NextThrottle]_vars

\* SpecFaults: the store and the page DB may fail anywhere
RequestF == RequestOp(FaultRequestSizes, RequestFaults)
LoadSimpleF == LoadSimpleOp(LoadSimpleFaults)
LoadMmapF == LoadMmapOp(ShortArrays, LoadMmapFaults)
DumpF == DumpOp(DumpFaults)
AddF == AddOp(BOOLEAN)

NextFaults ==
    \/ RequestF
    \/ LoadSimpleF
    \/ LoadMmapF
    \/ DumpF
    \/ AddF

InitFaults == Configured({-1}, {0}, {EmptyPageDB})

SpecFaults == InitFaults /\ [][NextFaults]_vars

\* SpecLoad: load_simple may fail, under a cap, on a page DB that holds
\* uncrawled pages and seeds
InitLoad == Configured({-1}, CrawlCaps \ {0}, StartedPageDBs)

NextLoad ==
    \/ Request
    \/ LoadSimpleF
    \/ Add

SpecLoad == InitLoad /\ [][NextLoad]_vars

\* SpecReopen: the scheduler is closed and opened again between operations
NextReopen ==
    \/ Request
    \/ LoadSimple
    \/ LoadMmapShort
    \/ Add
    \/ SetPersist
    \/ Reopen

SpecReopen == InitFaults /\ [][NextReopen]_vars

\* ------------------------------------------------------------------ claims
\* how often request handed out page h
Count(h, urls) == Cardinality({i \in 1..Len(urls) : urls[i] = h})

EntriesOf(S, h) == {e \in S : e.hash = h}

\* a schedule as the data model wants it: positive frequencies, scores from 0,
\* one entry per page
WellFormed(S) ==
    /\ \A e \in S : e.freq > 0 /\ e.score >= 0
    /\ \A a, b \in S : a.hash = b.hash => a = b

\* C1: request(max) returns a list of 0..max URLs, on success and on failure; on
\* an empty schedule the list is empty, and the call succeeds when nothing fails
\* in it and no earlier failure is on record.
C1_RequestLength ==
    [][op' = "request" =>
        /\ Len(request') <= max_requests'
        /\ schedule = {} =>
            /\ request' = <<>>
            /\ schedule' = {}
            /\ (fault' = NoFault /\ error = 0) => (rc' = 0 /\ request_set')]_vars

\* a request that max_requests stopped, with entries left to hand out
C1_Witness ==
    /\ op = "request"
    /\ rc = 0
    /\ request_set
    /\ max_requests >= 2
    /\ Len(request) = max_requests
    /\ schedule # {}

\* C2 as stated: with the throttle off and no cap, the schedule {(0, h1) -> 2,
\* (0, h2) -> 1} with both pages in the page DB makes request(6) emit
\* u1, u1, u2, u1, u1, u2.
Scenario1 ==
    /\ schedule = {Entry(0, 1, 2), Entry(0, 2, 1)}
    /\ page_db[1].present
    /\ page_db[2].present
    /\ margin < 0
    /\ max_n_crawls = 0
    /\ error = 0

C2_Original ==
    [][(Scenario1 /\ op' = "request" /\ max_requests' = 6 /\ fault' = NoFault)
        => request' = <<1, 1, 2, 1, 1, 2>>]_vars

\* C2 amended: from two entries at score 0 the head alternates after the first
\* pop, so request(6) emits u1, u2, u1, u1, u2, u1 (and leaves both at score 2.0).
C2_Scenario1 ==
    [][(Scenario1 /\ op' = "request" /\ max_requests' = 6 /\ fault' = NoFault)
        => /\ request' = <<1, 2, 1, 1, 2, 1>>
           /\ rc' = 0]_vars

C2_Witness ==
    /\ op = "request"
    /\ max_requests = 6
    /\ request = <<1, 2, 1, 1, 2, 1>>
    /\ schedule = {Entry(2 * ScoreUnit, 1, 2), Entry(2 * ScoreUnit, 2, 1)}

\* C3: each page hash occurs in at most one schedule entry.
C3_OneEntryPerHash ==
    \A a, b \in schedule : a.hash = b.hash => a = b

\* C4: every stored entry has freq > 0 and score >= 0.
C4_PositiveFreq ==
    \A e \in schedule : e.freq > 0 /\ e.score >= 0

\* C5: with max_n_crawls = M > 0 a request hands out page h at most
\* max(0, M - n_crawls(h)) times (the page DB's n_crawls as the call finds it);
\* stated for schedules that are well formed.
C5_CapLaw ==
    (op = "request" /\ max_n_crawls > 0 /\ WellFormed(schedule)) =>
        \A h \in Hashes :
            Count(h, request) <=
                IF max_n_crawls > page_db[h].n_crawls
                THEN max_n_crawls - page_db[h].n_crawls
                ELSE 0

\* C6: with margin >= 0 a page of positive frequency that is in the page DB is
\* never handed out twice less than 1/(freq*(1+margin)) apart; the URLs of one
\* request are handed out at one instant, so none of them repeats.  Stated for
\* schedules that are well formed.
C6_ThrottleLaw ==
    (op = "request" /\ margin >= 0 /\ WellFormed(schedule)) =>
        \A h \in Hashes : page_db[h].present => Count(h, request) <= 1

\* the head's page is in the page DB and now - last_crawl is less than
\* 1/(freq*(1+margin))
HeadNotYetDue ==
    /\ schedule # {}
    /\ margin >= 0
    /\ LET e == CursorFirst(schedule)
       IN  /\ page_db[e.hash].present
           /\ e.freq > 0
           /\ (now - page_db[e.hash].last_crawl) * e.freq * (1 + margin) < TimeUnit

\* the URLs a batch may hold when its loop comes to the head
EmittedBefore == {<<>>, <<1>>, <<2>>, <<2, 1>>}

\* C7: when margin >= 0 and the head is not yet due, request emits no URL for
\* the head nor for any later entry, leaves the schedule as it was and returns
\* success with the URLs emitted before the head was examined: a call that
\* finds such a head returns the empty list, and the loop, coming to such a
\* head with some URLs already in the list, ends with that list.
C7_ThrottledHeadStops ==
    [][/\ (op' = "request" /\ HeadNotYetDue /\ fault' = NoFault /\ error = 0) =>
            /\ request' = <<>>
            /\ request_set'
            /\ schedule' = schedule
            /\ rc' = 0
       /\ HeadNotYetDue =>
            \A urls \in EmittedBefore :
                LET r == RequestLoop(schedule, urls, Len(urls) + 1, 6, TRUE, NoFault)
                IN  r.ok /\ r.sched = schedule /\ r.urls = urls]_vars

\* a throttled head in front of an entry whose page is due or unknown
C7_Witness ==
    /\ op = "request"
    /\ max_requests > 0
    /\ rc = 0
    /\ request = <<>>
    /\ HeadNotYetDue
    /\ \E e \in schedule :
         /\ e # CursorFirst(schedule)
         /\ e.freq > 0
         /\ page_db[e.hash].present
         /\ (now - page_db[e.hash].last_crawl) * e.freq * (1 + margin) >= TimeUnit

\* C8: a request that returns an error leaves the committed schedule as it was;
\* one that returns success commits all the pops and advances of its loop.
C8_RequestAtomic ==
    [][op' = "request" =>
        /\ rc' # 0 => schedule' = schedule
        /\ rc' = 0 =>
             schedule' = RequestLoop(schedule, <<>>, 1, max_requests', TRUE, NoFault).sched]_vars

\* a failure after a URL was appended, with something to roll back
C8_Witness ==
    /\ op = "request"
    /\ rc # 0
    /\ fault.at \in {"get", "get_info", "del", "add_url", "put", "commit"}
    /\ request # <<>>
    /\ schedule # {}

\* C9: a request that fails hands back none of the URLs it had appended (stated
\* for schedules that are well formed).
C9_NoPartialBatch ==
    (op = "request" /\ rc # 0 /\ WellFormed(schedule)) => request = <<>>

\* C10: a successful request that handed out page h k times moves h's entry from
\* (score, h) -> freq to (score + k/freq, h) -> freq; the entries of a page it did
\* not hand out are as they were, but for those it retired (page unknown or
\* capped).  Scenario 1 ends with both pages at score 2.0.
C10_ScoreAdvance ==
    [][(op' = "request" /\ rc' = 0) =>
        /\ \A h \in Hashes :
             LET before == EntriesOf(schedule, h)
                 after == EntriesOf(schedule', h)
                 k == Count(h, request')
             IN  /\ (k > 0 /\ Cardinality(before) = 1) =>
                       \E e \in before :
                           after = {Entry(IF e.freq = 0 \/ e.score = PosInf
                                          THEN PosInf
                                          ELSE e.score + k * Period(e.freq),
                                          h, e.freq)}
                 /\ k = 0 =>
                       /\ after \subseteq before
                       /\ after # before =>
                            \/ ~page_db[h].present
                            \/ max_n_crawls > 0 /\ page_db[h].n_crawls >= max_n_crawls
        /\ (Scenario1 /\ max_requests' = 6) =>
             schedule' = {Entry(2 * ScoreUnit, 1, 2), Entry(2 * ScoreUnit, 2, 1)}]_vars

\* page 1 handed out twice from score 0 at frequency 2, beside another entry
C10_Witness ==
    /\ op = "request"
    /\ rc = 0
    /\ Count(1, request) = 2
    /\ EntriesOf(schedule, 1) = {Entry(ScoreUnit, 1, 2)}
    /\ EntriesOf(schedule, 2) # {}

\* the setting of the rate law: throttle off, no cap, positive frequencies, one
\* entry per page, every scheduled page in the page DB
RateSetting ==
    /\ margin < 0
    /\ max_n_crawls = 0
    /\ WellFormed(schedule)
    /\ \A e \in schedule : page_db[e.hash].present

\* no entry is more than one of its own periods ahead of another
Balanced(S) == \A a, b \in S : a.score - b.score <= Period(a.freq)

\* C11: with the throttle off, no cap, all pages in the page DB and positive
\* frequencies, request keeps the scores of any two entries within one period
\* of the one that is ahead; from entries at score 0 the emission counts obey
\* n_i/f_i - n_j/f_j <= 1/f_i (multiplied out: n_i*f_j - n_j*f_i <= f_j), and no
\* entry is dropped.
C11_RateLaw ==
    [][(op' = "request" /\ rc' = 0 /\ RateSetting) =>
        /\ Balanced(schedule) => Balanced(schedule')
        /\ (\A e \in schedule : e.score = 0) =>
             /\ \A a, b \in schedule :
                  Count(a.hash, request') * b.freq - Count(b.hash, request') * a.freq
                      <= b.freq
             /\ \A e \in schedule :
                  Entry(Count(e.hash, request') * Period(e.freq), e.hash, e.freq)
                      \in schedule']_vars

\* two URLs from two entries at score 0 with frequencies 2 and 1: the slower
\* page is now half a second ahead of the faster one
C11_Witness ==
    /\ op = "request"
    /\ rc = 0
    /\ margin < 0
    /\ max_n_crawls = 0
    /\ request = <<1, 2>>
    /\ schedule = {Entry(1, 1, 2), Entry(ScoreUnit, 2, 1)}

\* the head is not throttled, and its page is unknown to the page DB or has
\* reached the cap
HeadRetires ==
    /\ schedule # {}
    /\ LET e == CursorFirst(schedule)
           pi == page_db[e.hash]
       IN  /\ ~(pi.present /\ margin >= 0
                  /\ (now - pi.last_crawl) * e.freq * (1 + margin) < TimeUnit)
           /\ \/ ~pi.present
              \/ max_n_crawls > 0 /\ pi.n_crawls >= max_n_crawls

Loaders == {"load_simple", "load_mmap"}

\* C12: a head that is not throttled and whose page is unknown or capped is
\* deleted, gets no URL and is not put back, and the call goes on with the next
\* head (it ends as a call on the schedule without that entry ends); no entry
\* of a hash appears in the schedule but by a loader.
C12_Retirement ==
    [][/\ (op' = "request" /\ rc' = 0 /\ max_requests' > 0 /\ HeadRetires) =>
            LET e == CursorFirst(schedule)
                rest == RequestLoop(schedule \ {e}, <<>>, 1, max_requests', TRUE, NoFault)
            IN  /\ e \notin schedule'
                /\ Count(e.hash, request') = 0
                /\ EntriesOf(schedule', e.hash) \subseteq EntriesOf(schedule, e.hash) \ {e}
                /\ schedule' = rest.sched
                /\ request' = rest.urls
       /\ op' \notin Loaders =>
            \A h \in Hashes : EntriesOf(schedule, h) = {} => EntriesOf(schedule', h) = {}]_vars

\* a capped page at the head, in front of a page that request(2) hands out
\* once it has retired the head
C12_Witness ==
    /\ HeadRetires
    /\ max_n_crawls > 0
    /\ page_db[CursorFirst(schedule).hash].present
    /\ LET e == CursorFirst(schedule)
           r == freq_scheduler_request(2, NoFault)
       IN  /\ r.rc = 0
           /\ e \notin r.sched
           /\ r.urls # <<>>
           /\ Count(e.hash, r.urls) = 0

\* the frequency load_from_pagedb computes for page h
ComputedFreq(h, freq_default, freq_scale) ==
    IF freq_scale > 0 /\ page_info_rate(h) > 0
    THEN freq_scale * page_info_rate(h)
    ELSE freq_default

\* the pages load_from_pagedb is to schedule
ToSchedule(freq_default, freq_scale) ==
    {h \in Hashes :
        /\ page_db[h].present
        /\ page_db[h].n_crawls > 0
        /\ (max_n_crawls = 0 \/ page_db[h].n_crawls < max_n_crawls)
        /\ ~page_db[h].is_seed
        /\ ComputedFreq(h, freq_default, freq_scale) > 0}

\* the schedule with the key (0, h) of each such page holding its frequency
Loaded(freq_default, freq_scale) ==
    {x \in schedule : ~(x.score = 0 /\ x.hash \in ToSchedule(freq_default, freq_scale))}
    \cup {Entry(0, h, ComputedFreq(h, freq_default, freq_scale)) :
             h \in ToSchedule(freq_default, freq_scale)}

\* C13: a successful load_from_pagedb(freq_default, freq_scale) writes the keys
\* (0, hash) of exactly the pages with n_crawls > 0, below the cap, not a seed
\* and of positive computed frequency, each with that frequency, and nothing
\* else; a load that fails leaves the schedule as it was.
C13_LoadSelection ==
    [][/\ (error = 0 /\ ~txn_open) =>
            \A freq_default \in FreqDefaults, freq_scale \in FreqScales :
                LET r == freq_scheduler_load_simple(freq_default, freq_scale, NoFault)
                IN  r.rc = 0 /\ r.sched = Loaded(freq_default, freq_scale)
       /\ op' = "load_simple" =>
            /\ rc' = 0 =>
                 \E freq_default \in FreqDefaults, freq_scale \in FreqScales :
                     schedule' = Loaded(freq_default, freq_scale)
            /\ rc' # 0 => schedule' = schedule]_vars

\* a load under a cap that took page 1, beside the entry an earlier request had
\* advanced, and left out page 2, a crawled seed
C13_Witness ==
    /\ op = "load_simple"
    /\ rc = 0
    /\ max_n_crawls > 0
    /\ page_db[1].n_crawls = 1
    /\ page_db[2].is_seed
    /\ page_db[2].n_crawls = 1
    /\ Entry(0, 1, 2) \in schedule
    /\ Entry(1, 1, 2) \in schedule
    /\ EntriesOf(schedule, 2) = {}

\* C14: an operation that meets no failure of its own returns success and does
\* its work, whatever failed before it: a request hands out its batch and
\* commits it.
C14_ErrorPerOperation ==
    [][(op' \in {"request", "load_simple", "load_mmap", "dump", "add"} /\ fault' = NoFault) =>
        /\ rc' = 0
        /\ op' = "request" =>
             LET r == RequestLoop(schedule, <<>>, 1, max_requests', TRUE, NoFault)
             IN  request_set' /\ request' = r.urls /\ schedule' = r.sched]_vars

\* rows lists every entry of S once, in ascending (score, hash) order
Listing(rows, S) ==
    /\ Len(rows) = Cardinality(S)
    /\ {rows[i] : i \in 1..Len(rows)} = S
    /\ \A i, j \in 1..Len(rows) :
         i < j => \/ rows[i].score < rows[j].score
                  \/ rows[i].score = rows[j].score /\ rows[i].hash < rows[j].hash

\* the rows for (A, 2.0), (B, 1.0), (C, 1.0) with B < C: B, C, A
DumpExample ==
    \A A, B, C \in 1..3 :
        (A # B /\ A # C /\ B < C) =>
            KeyOrder({Entry(2 * ScoreUnit, A, 1), Entry(ScoreUnit, B, 1), Entry(ScoreUnit, C, 1)})
                = <<Entry(ScoreUnit, B, 1), Entry(ScoreUnit, C, 1), Entry(2 * ScoreUnit, A, 1)>>

\* C15: a dump that succeeds lists every entry once in ascending (score, hash)
\* order (B, C, A in the example), and a dump, successful or not, leaves the
\* committed schedule as it was.
C15_DumpReadOnly ==
    [][/\ DumpExample
       /\ op' = "dump" =>
            /\ schedule' = schedule
            /\ rc' = 0 => Listing(dump_rows', schedule)]_vars

\* two rows, the later hash first because its score is lower
C15_Witness ==
    /\ op = "dump"
    /\ rc = 0
    /\ Len(dump_rows) = 2
    /\ dump_rows[1].hash > dump_rows[2].hash
    /\ dump_rows[1].score < dump_rows[2].score

C17_NonPositiveDestroyed ==
    [][(/\ op' = "request"
        /\ rc' = 0
        /\ max_requests' > 0
        /\ schedule # {}
        /\ CursorFirst(schedule).freq <= 0
        /\ Cardinality(EntriesOf(schedule, CursorFirst(schedule).hash)) = 1) =>
            LET e == CursorFirst(schedule)
            IN  /\ Count(e.hash, request') = 0
                /\ EntriesOf(schedule', e.hash) = {}]_vars

\* C18: when opening the table, registering the comparator or opening the
\* cursor fails in an operation that found no earlier error, the operation
\* returns a failure and has aborted the transaction it began, once, with no
\* transaction left open.
C18_OpenFailureSurfaced ==
    [][(fault'.at = "open" /\ error = 0) =>
        /\ rc' # 0
        /\ txn_events' = <<"begin", "abort">>
        /\ ~txn_open']_vars

\* the request loop run on the schedule as it stands
LoopRun(max, f) == RequestLoop(schedule, <<>>, 1, max, TRUE, f)

\* C19: for every max, the request loop ends within max + (entries at the
\* start) rounds, whether it ends normally or on a failure; on a well-formed
\* schedule a loop that ends normally has spent one round per URL, one per
\* entry dropped, and one on the interrupt if it ended short of max.
C19_RequestTerminates ==
    \A max \in RequestSizes :
        /\ \A f \in RequestFaults :
             LoopRun(max, f).rounds <= max + Cardinality(schedule)
        /\ WellFormed(schedule) =>
             LET r == LoopRun(max, NoFault)
             IN  r.rounds = Len(r.urls)
                            + (Cardinality(schedule) - Cardinality(r.sched))
                            + (IF Len(r.urls) < max THEN 1 ELSE 0)

\* a request(6) that handed out two URLs and was then stopped by the throttle,
\* with both entries still scheduled
C19_Witness ==
    /\ op = "request"
    /\ rc = 0
    /\ max_requests = 6
    /\ Len(request) = 2
    /\ Cardinality(schedule) = 2
    /\ HeadNotYetDue

\* C20: an operation that begins a transaction finishes it exactly once before
\* it returns: one commit, or one abort (also after a commit that failed), and
\* nothing is left open.
C20_TxnLifecycle ==
    op \in {"request", "load_simple", "load_mmap", "dump"} =>
        /\ ~txn_open
        /\ txn_events \in {<<>>,
                           <<"begin", "commit">>,
                           <<"begin", "abort">>,
                           <<"begin", "commit_failed", "abort">>}

====
